---- MODULE Spec2Model ----
(***************************************************************************)
(* Session manager of the streamable-HTTP MCP proxy                        *)
(* (src/src/streamableHttpProxyHandler.ts).                                *)
(*                                                                         *)
(* The handler is an async function of a single-threaded event loop: it    *)
(* runs without interruption from one `await` to the next.  Every action   *)
(* below is one such run.  Three kinds of await are distinguished:         *)
(*   - I/O awaits (request body, 100 ms timer, upstream connect/request):  *)
(*     the continuation runs in a fresh macrotask, i.e. only when the      *)
(*     microtask queue microQ is empty;                                    *)
(*   - `await validateConnection(c)`: the promise is already resolved, the *)
(*     continuation is appended to microQ and runs after exactly the       *)
(*     continuations queued before it;                                     *)
(*   - awaits on library promises (handleRequest, server.connect,          *)
(*     client.close): may resolve either way, so their continuation runs   *)
(*     in a macrotask of its own or in the turn in which the handler       *)
(*     started to wait.                                                    *)
(***************************************************************************)
EXTENDS Integers, FiniteSets, Sequences, TLC

\* ---------------------------------------------------------------- bounds
MaxReq == 3   \* HTTP requests received in one behaviour
MaxConc == 2   \* requests in flight at the same time
NumSids == 1   \* session ids clients invent (besides the ids minted for them)
MaxTime == 1   \* sweep periods (5 min each) that elapse
MaxForce == 1  \* calls of forceCleanupAllConnections
MaxSweeps == 7 \* sweep periods that elapse in SpecSweep
MaxFail == 1   \* failures of the upstream or of a library call

\* ------------------------------------------------------------- constants
\* CLEANUP_THRESHOLD (30 min) in units of the sweep period (5 min)
CLEANUP_THRESHOLD == 6

Reqs == 1..MaxReq
\* session ids: header values 1..NumSids, and one fresh UUID per request
Uuid(h) == NumSids + h
Sids == 1..(NumSids + MaxReq)
NoSid == 0
\* the values of the Origin header; NoOrigin: the request has none.  In a
\* response, the value of Access-Control-Allow-Origin (NoOrigin: no CORS
\* headers)
NumOrigins == 2
Origins == 1..NumOrigins
NoOrigin == 0

\* connection ids: a session id or the sentinel "global-mcp-connection"
globalConnectionId == 0
ConnIds == {globalConnectionId} \cup Sids
NoMap == -1

\* connection objects are identified by the request that created them
NoObj == 0

\* capability sets
DefaultCaps == {"tools", "resources", "prompts", "logging"}
UpstreamCapSets == {{"tools", "logging"}}

\* `via` records how the upstream answered the initialize that made the
\* connection ("ok", "already"); the code does not store it
NoConnection == [state |-> "none", lastUsed |-> 0, sessionIds |-> {},
                 clientOpen |-> FALSE, server |-> "null", gen |-> NoSid,
                 caps |-> {}, via |-> "none"]

\* a response: HTTP status, JSON-RPC error code and message (the id of an
\* error reply is always null), mcp-session-id header, CORS headers set
NoResp == [status |-> 0, code |-> 0, msg |-> "", sess |-> NoSid,
           cors |-> NoOrigin]

IdleReq == [pc |-> "idle", method |-> "", init |-> FALSE, hdr |-> NoSid,
            origin |-> NoOrigin, sid |-> NoSid, conn |-> NoObj, connId |-> NoMap,
            isGlobal |-> FALSE, vres |-> FALSE, up |-> "none",
            handed |-> "none", resp |-> NoResp]

\* a returned handler keeps no locals
DoneReq == [IdleReq EXCEPT !.pc = "done"]
NoOut == [h |-> 0, r |-> IdleReq]

VARIABLES
  activeProxyConnections,  \* connection id -> connection object (or NoObj)
  sessionToConnection,     \* session id -> connection id (or NoMap)
  initializingSessions,    \* set of session ids
  cleanupTimer,            \* the number of interval timers that exist (the
                           \* variable of the code is non-null iff it is > 0)
  heap,                    \* connection object -> its fields
  req,                     \* request -> handler locals and position
  microQ,                  \* continuations waiting in the microtask queue
  draining,                \* TRUE iff a continuation of microQ has run since
                           \* the queue was last empty
  turn,                    \* the handlers that have run since then
  out,                     \* the handler that returned in the last step:
                           \* its number, final locals and response
  now,                     \* Date.now(), in sweep periods
  nReq,                    \* requests received so far
  nForce,                  \* forceCleanupAllConnections calls so far
  nFail,                   \* failures injected so far
  proxy                    \* one (client, server) pair bridged by proxyServer:
                           \* the handlers installed and the traffic seen

vars == <<activeProxyConnections, sessionToConnection, initializingSessions,
          cleanupTimer, heap, req, microQ, draining, turn, out, now, nReq, nForce,
          nFail, proxy>>

\* the state of the HTTP handler
handlerVars == <<activeProxyConnections, sessionToConnection,
                 initializingSessions, cleanupTimer, heap, req, microQ,
                 draining, turn, out, now, nReq, nForce, nFail>>

\* no bridge is being looked at
NoProxy == [phase |-> "none"]

\* the shared tables as one value, so that the sequential code of a handler
\* can be written as a composition of functions on it
Tables == [active |-> activeProxyConnections, s2c |-> sessionToConnection,
           initializing |-> initializingSessions, timer |-> cleanupTimer,
           heap |-> heap]

\* a connection object that neither activeProxyConnections nor a running
\* handler refers to is garbage: the fields nobody can read again are reset
Collect(hp, act, rq) ==
  [o \in Reqs |->
     IF \/ \E c \in ConnIds : act[c] = o
        \/ \E h \in Reqs : rq[h].conn = o
     THEN hp[o]
     ELSE [NoConnection EXCEPT !.state = hp[o].state,
                               !.clientOpen = hp[o].clientOpen,
                               !.gen = hp[o].gen, !.via = hp[o].via]]

Commit(st, rq) ==
  /\ activeProxyConnections' = st.active
  /\ sessionToConnection' = st.s2c
  /\ initializingSessions' = st.initializing
  /\ cleanupTimer' = st.timer
  /\ heap' = Collect(st.heap, st.active, rq)

HandlerInit ==
  /\ activeProxyConnections = [c \in ConnIds |-> NoObj]
  /\ sessionToConnection = [s \in Sids |-> NoMap]
  /\ initializingSessions = {}
  /\ cleanupTimer = 0
  /\ heap = [o \in Reqs |-> NoConnection]
  /\ req = [h \in Reqs |-> IdleReq]
  /\ microQ = <<>>
  /\ draining = FALSE
  /\ turn = {}
  /\ out = NoOut
  /\ now = 0
  /\ nReq = 0
  /\ nForce = 0
  /\ nFail = 0

Init == HandlerInit /\ proxy = NoProxy

\* ------------------------------------------------------ helper functions

\* startCleanupTimer without the test for an existing timer
startCleanupTimer_NoGuard(st) == [st EXCEPT !.timer = @ + 1]

\* startCleanupTimer: create the interval timer unless one exists
startCleanupTimer(st) ==
  IF st.timer > 0 THEN st ELSE [st EXCEPT !.timer = @ + 1]

\* cleanupConnection(connectionId)
cleanupConnection(st, connectionId) ==
  LET o == st.active[connectionId] IN
  IF o = NoObj THEN st
  ELSE [st EXCEPT
          !.s2c = [s \in Sids |->
                     IF s \in st.heap[o].sessionIds THEN NoMap ELSE st.s2c[s]],
          !.heap = [st.heap EXCEPT ![o].clientOpen = FALSE,
                                   ![o].server = "closed"],
          !.active = [st.active EXCEPT ![connectionId] = NoObj]]

\* validateConnection(connection)
validateConnection(c) == c.state = "connected"

\* the JSON-RPC error replies the handler writes itself
ErrorReply(r, status, msg) ==
  [status |-> status, code |-> -32000, msg |-> msg, sess |-> NoSid,
   cors |-> r.origin]

\* the reply to OPTIONS
Preflight(r) ==
  [status |-> 204, code |-> 0, msg |-> "", sess |-> NoSid, cors |-> r.origin]

\* what the server transport writes when handleRequest succeeds: for an
\* initialize the mcp-session-id header carries sessionIdGenerator()
TransportReply(r, c) ==
  [status |-> 200, code |-> 0, msg |-> "forwarded",
   sess |-> IF r.init THEN c.gen ELSE NoSid, cors |-> r.origin]

\* the handler writes its response and returns
Finish(r, resp) == [r EXCEPT !.pc = "done", !.resp = resp]

\* `connection.lastUsed = Date.now(); await serverTransport.handleRequest(..)`
HandOff(st, r, o, pc, t) ==
  [st |-> [st EXCEPT !.heap[o].lastUsed = t],
   r |-> [r EXCEPT !.pc = pc, !.conn = o, !.handed = st.heap[o].state],
   enq |-> FALSE]

\* CreateConnection that saves the connection object in the tables at once
CreateConnection_SavesFirst(st, r, h, t) ==
  [st |-> [st EXCEPT !.heap[h] =
             [state |-> "initializing", lastUsed |-> t,
              sessionIds |-> {r.sid}, clientOpen |-> FALSE,
              server |-> "null", gen |-> NoSid, caps |-> {},
              via |-> "none"],
                     !.active[r.sid] = h,
                     !.s2c[r.sid] = r.sid],
   r |-> [r EXCEPT !.pc = "upstream", !.conn = h, !.connId = r.sid,
                   !.isGlobal = FALSE],
   enq |-> FALSE]

\* "Create new connection": the connection object, then client.connect
CreateConnection(st, r, h, t) ==
  [st |-> [st EXCEPT !.heap[h] =
             [state |-> "initializing", lastUsed |-> t,
              sessionIds |-> {r.sid}, clientOpen |-> FALSE,
              server |-> "null", gen |-> NoSid, caps |-> {},
              via |-> "none"]],
   r |-> [r EXCEPT !.pc = "upstream", !.conn = h, !.connId = r.sid,
                   !.isGlobal = FALSE],
   enq |-> FALSE]

\* "Check if there's a global connection that can be reused", up to the
\* await on validateConnection(globalConnection)
GlobalCheck(st, r, h, t) ==
  LET g == st.active[globalConnectionId] IN
  IF g # NoObj
  THEN [st |-> st,
        r |-> [r EXCEPT !.pc = "gl_val", !.conn = g,
                        !.connId = globalConnectionId,
                        !.vres = validateConnection(st.heap[g])],
        enq |-> TRUE]
  ELSE CreateConnection(st, r, h, t)

\* initializingSessions.add(sessionId), then "Check if valid connection
\* already exists", up to the await on validateConnection(connection)
ExistingCheck(st0, r, h, t) ==
  LET st == [st0 EXCEPT !.initializing = @ \cup {r.sid}]
      e == st.s2c[r.sid]
  IN IF e # NoMap /\ st.active[e] # NoObj
     THEN [st |-> st,
           r |-> [r EXCEPT !.pc = "ex_val", !.conn = st.active[e],
                           !.connId = e,
                           !.vres = validateConnection(st.heap[st.active[e]])],
           enq |-> TRUE]
     ELSE GlobalCheck(st, r, h, t)

\* the `finally` of the initialize branch
Finally(st, r) == [st EXCEPT !.initializing = @ \ {r.sid}]

\* SubsequentStart without the check for a missing header: the lookup of
\* an undefined session id finds nothing
SubsequentStart_NoHeaderCheck(st, r0) ==
  LET connectionId == IF r0.hdr = NoSid THEN NoMap ELSE st.s2c[r0.hdr]
      o == IF connectionId # NoMap THEN st.active[connectionId] ELSE NoObj
  IN IF o = NoObj
     THEN [st |-> st,
           r |-> Finish(r0, ErrorReply(r0, 200, "Session not found")),
           enq |-> FALSE]
     ELSE [st |-> st,
           r |-> [r0 EXCEPT !.pc = "sub_val", !.conn = o,
                            !.connId = connectionId,
                            !.vres = validateConnection(st.heap[o])],
           enq |-> TRUE]

\* SubsequentStart answering an unknown session with HTTP 404 and dropping
\* the stale mapping
SubsequentStart_NotFound404(st, r0) ==
  IF r0.hdr = NoSid
  THEN [st |-> st,
        r |-> Finish(r0, ErrorReply(r0, 400, "Missing session ID")),
        enq |-> FALSE]
  ELSE LET connectionId == st.s2c[r0.hdr]
           o == IF connectionId # NoMap THEN st.active[connectionId]
                ELSE NoObj
       IN IF o = NoObj
          THEN [st |-> [st EXCEPT !.s2c[r0.hdr] = NoMap],
                r |-> Finish(r0, ErrorReply(r0, 404, "Session not found")),
                enq |-> FALSE]
          ELSE [st |-> st,
                r |-> [r0 EXCEPT !.pc = "sub_val", !.conn = o,
                                 !.connId = connectionId,
                                 !.vres = validateConnection(st.heap[o])],
                enq |-> TRUE]

\* "2. Subsequent requests", up to the await on validateConnection
SubsequentStart(st, r0) ==
  IF r0.hdr = NoSid
  THEN [st |-> st,
        r |-> Finish(r0, ErrorReply(r0, 400, "Missing session ID")),
        enq |-> FALSE]
  ELSE LET connectionId == st.s2c[r0.hdr]
           o == IF connectionId # NoMap THEN st.active[connectionId]
                ELSE NoObj
       IN IF o = NoObj
          THEN [st |-> st,
                r |-> Finish(r0, ErrorReply(r0, 200, "Session not found")),
                enq |-> FALSE]
          ELSE [st |-> st,
                r |-> [r0 EXCEPT !.pc = "sub_val", !.conn = o,
                                 !.connId = connectionId,
                                 !.vres = validateConnection(st.heap[o])],
                enq |-> TRUE]

\* StartRun that looks at the method only in the branch of subsequent
\* requests
StartRun_OptionsAfterInitialize(st, r0, h, t) ==
  IF r0.init
  THEN LET r == [r0 EXCEPT
                   !.sid = IF r0.hdr # NoSid THEN r0.hdr ELSE Uuid(h)]
       IN IF r.sid \in st.initializing
          THEN [st |-> st, r |-> [r EXCEPT !.pc = "wait"], enq |-> FALSE]
          ELSE ExistingCheck(st, r, h, t)
  ELSE IF r0.method = "OPTIONS"
  THEN [st |-> st, r |-> Finish(r0, Preflight(r0)), enq |-> FALSE]
  ELSE SubsequentStart(st, r0)

\* the code after `await getBody(req)` up to the next await
StartRun(st, r0, h, t) ==
  IF r0.method = "OPTIONS"
  THEN [st |-> st, r |-> Finish(r0, Preflight(r0)), enq |-> FALSE]
  ELSE IF r0.init
  THEN LET r == [r0 EXCEPT
                   !.sid = IF r0.hdr # NoSid THEN r0.hdr ELSE Uuid(h)]
       IN IF r.sid \in st.initializing
          THEN [st |-> st, r |-> [r EXCEPT !.pc = "wait"], enq |-> FALSE]
          ELSE ExistingCheck(st, r, h, t)
  ELSE SubsequentStart(st, r0)

\* after the 100 ms wait: "Re-check if initialization is completed"
WaitRun(st, r, h, t) ==
  LET connectionId == st.s2c[r.sid] IN
  IF connectionId # NoMap /\ st.active[connectionId] # NoObj
  THEN HandOff(st, r, st.active[connectionId], "hr_wait", t)
  ELSE ExistingCheck(st, r, h, t)

\* after `await validateConnection(connection)` on the existing connection
ExistingRun(st, r, h, t) ==
  IF r.vres
  THEN HandOff(st, r, r.conn, "hr_reuse", t)
  ELSE GlobalCheck(cleanupConnection(st, r.connId), r, h, t)

\* GlobalRun that maps the session id but does not add it to sessionIds
GlobalRun_NoSessionAdd(st, r, h, t) ==
  IF r.vres
  THEN HandOff([st EXCEPT !.s2c[r.sid] = globalConnectionId],
               r, r.conn, "hr_reuse", t)
  ELSE CreateConnection(cleanupConnection(st, globalConnectionId), r, h, t)

\* after `await validateConnection(globalConnection)`
GlobalRun(st, r, h, t) ==
  IF r.vres
  THEN HandOff([st EXCEPT !.s2c[r.sid] = globalConnectionId,
                          !.heap[r.conn].sessionIds = @ \cup {r.sid}],
               r, r.conn, "hr_reuse", t)
  ELSE CreateConnection(cleanupConnection(st, globalConnectionId), r, h, t)

\* after `await validateConnection(connection)` of a subsequent request
SubsequentRun(st, r, h, t) ==
  IF ~r.vres
  THEN [st |-> cleanupConnection(st, r.connId),
        r |-> Finish(r, ErrorReply(r, 200,
                                   "Connection lost, please reinitialize")),
        enq |-> FALSE]
  ELSE HandOff(st, r, r.conn, "hr_sub", t)

\* FailConnection that marks the error but leaves the upstream client open
FailConnection_NoClose(st, r) ==
  [st |-> [st EXCEPT !.heap[r.conn].state = "error"],
   r |-> [r EXCEPT !.pc = "closing"],
   enq |-> FALSE]

\* the outer `catch` of the new-connection path: state = ERROR, client.close()
FailConnection(st, r) ==
  [st |-> [st EXCEPT !.heap[r.conn].state = "error",
                     !.heap[r.conn].clientOpen = FALSE],
   r |-> [r EXCEPT !.pc = "closing"],
   enq |-> FALSE]

\* UpstreamRun that keeps the session id as connection id when the upstream
\* says it is already initialized
UpstreamRun_KeepsConnectionId(st, r, outcome, caps) ==
  IF outcome \in {"connfail", "fail"}
  THEN FailConnection([st EXCEPT !.heap[r.conn].clientOpen =
                                    (outcome = "fail")],
                      [r EXCEPT !.up = outcome])
  ELSE [st |-> [st EXCEPT !.heap[r.conn] =
                  [@ EXCEPT !.state = "connected", !.clientOpen = TRUE,
                            !.caps = IF outcome = "already" THEN DefaultCaps
                                     ELSE caps,
                            !.server = "created", !.gen = r.sid,
                            !.via = outcome]],
        r |-> [r EXCEPT !.pc = "setup", !.up = outcome, !.connId = r.sid],
        enq |-> FALSE]

\* the result of client.connect and of the upstream initialize round trip,
\* then the creation of the server transport and the local server, up to
\* `await server.connect(serverTransport)`
UpstreamRun(st, r, outcome, caps) ==
  IF outcome \in {"connfail", "fail"}
  THEN FailConnection([st EXCEPT !.heap[r.conn].clientOpen =
                                    (outcome = "fail")],
                      [r EXCEPT !.up = outcome])
  ELSE [st |-> [st EXCEPT !.heap[r.conn] =
                  [@ EXCEPT !.state = "connected", !.clientOpen = TRUE,
                            !.caps = IF outcome = "already" THEN DefaultCaps
                                     ELSE caps,
                            !.server = "created", !.gen = r.sid,
                            !.via = outcome]],
        r |-> [r EXCEPT !.pc = "setup", !.up = outcome,
                 !.isGlobal = (outcome = "already"),
                 !.connId = IF outcome = "already" THEN globalConnectionId
                            ELSE r.sid],
        enq |-> FALSE]

\* "Save connection" .. startCleanupTimer(), up to
\* `await serverTransport.handleRequest(req, res, body)`
SaveConnection(st, r) ==
  LET st1 == [st EXCEPT !.heap[r.conn].server = "connected",
                        !.active[r.connId] = r.conn,
                        !.s2c[r.sid] = r.connId]
      st2 == IF r.isGlobal
             THEN [st1 EXCEPT !.heap[r.conn].sessionIds = {r.sid}]
             ELSE st1
  IN [st |-> startCleanupTimer(st2),
      r |-> [r EXCEPT !.pc = "hr_new", !.handed = st.heap[r.conn].state],
      enq |-> FALSE]

\* an outermost `catch` that logs the error and writes no response
InternalError_NoResponse(r) == [NoResp EXCEPT !.cors = r.origin]

\* the handler's outermost `catch`
InternalError(r) ==
  [status |-> 500, code |-> 0, msg |-> "Internal Server Error",
   sess |-> NoSid, cors |-> r.origin]

\* ---------------------------------------------------------------- actions

InFlight == {h \in Reqs : req[h].pc \notin {"idle", "done"}}

\* the session ids a client can put in the mcp-session-id header: one it
\* invented, or one that an earlier initialize may have minted and returned
Minted == {Uuid(k) : k \in {j \in Reqs : req[j].pc = "done"}}
HeaderValues == {NoSid} \cup (1..NumSids) \cup Minted

\* the requests a client may send
Requests ==
  {[method |-> "POST", init |-> i, hdr |-> s, origin |-> NoOrigin] :
      i \in BOOLEAN, s \in HeaderValues}
  \cup {[method |-> "POST", init |-> FALSE, hdr |-> NoSid, origin |-> 1]}
  \cup {[method |-> "OPTIONS", init |-> i, hdr |-> s, origin |-> o] :
      i \in BOOLEAN, s \in 0..1, o \in {NoOrigin} \cup Origins}

\* the outcomes of a library call that may throw
Outcomes == IF nFail < MaxFail THEN BOOLEAN ELSE {TRUE}

\* the answers of the upstream to connect and initialize
UpstreamOutcomes ==
  {"ok", "already"} \cup
  (IF nFail < MaxFail THEN {"connfail", "fail"} ELSE {})

\* handler h runs from its await to the next one; a continuation taken from
\* the head of microQ leaves it, one that awaits validateConnection joins it
Apply(h, res, failed) ==
  LET popped == microQ # <<>> /\ Head(microQ) = h
      rest == IF popped THEN Tail(microQ) ELSE microQ
      q == IF res.enq THEN Append(rest, h) ELSE rest
      rq == [req EXCEPT ![h] = IF res.r.pc = "done" THEN DoneReq ELSE res.r]
  IN /\ Commit(res.st, rq)
     /\ req' = rq
     /\ out' = IF res.r.pc = "done" THEN [h |-> h, r |-> res.r] ELSE NoOut
     /\ microQ' = q
     /\ draining' = (q # <<>> /\ (draining \/ popped))
     /\ turn' = IF q = <<>> THEN {} ELSE turn \cup {h}
     /\ nFail' = IF failed THEN nFail + 1 ELSE nFail
     /\ UNCHANGED <<now, nForce, proxy>>

\* A request has been received and its body read: the handler runs from
\* `await getBody(req)` to its next await.  Requests whose bodies end in the
\* same turn of the event loop all run this first part before any of their
\* continuations, hence the guard ~draining rather than microQ = <<>>.
Receive(h) ==
  /\ h = nReq + 1
  /\ nReq < MaxReq
  /\ Cardinality(InFlight) < MaxConc
  /\ ~draining
  /\ \E q \in Requests :
       Apply(h, StartRun(Tables, [IdleReq EXCEPT !.method = q.method,
                                   !.init = q.init, !.hdr = q.hdr,
                                   !.origin = q.origin], h, now), FALSE)
  /\ nReq' = nReq + 1

AtHead(h, pc) == microQ # <<>> /\ Head(microQ) = h /\ req[h].pc = pc

\* a library promise settles
Settles(h) == microQ = <<>> \/ h \in turn

WaitTimeout(h) ==
  /\ req[h].pc = "wait"
  /\ microQ = <<>>
  /\ Apply(h, WaitRun(Tables, req[h], h, now), FALSE)
  /\ UNCHANGED nReq

ExistingValidated(h) ==
  /\ AtHead(h, "ex_val")
  /\ Apply(h, ExistingRun(Tables, req[h], h, now), FALSE)
  /\ UNCHANGED nReq

GlobalValidated(h) ==
  /\ AtHead(h, "gl_val")
  /\ Apply(h, GlobalRun(Tables, req[h], h, now), FALSE)
  /\ UNCHANGED nReq

SubsequentValidated(h) ==
  /\ AtHead(h, "sub_val")
  /\ Apply(h, SubsequentRun(Tables, req[h], h, now), FALSE)
  /\ UNCHANGED nReq

UpstreamReply(h) ==
  /\ req[h].pc = "upstream"
  /\ microQ = <<>>
  /\ \E outcome \in UpstreamOutcomes, caps \in UpstreamCapSets :
       Apply(h, UpstreamRun(Tables, req[h], outcome, caps),
             outcome \in {"connfail", "fail"})
  /\ UNCHANGED nReq

\* server.connect(serverTransport) and proxyServer(..) have returned or thrown
ServerSetup(h) ==
  /\ req[h].pc = "setup"
  /\ Settles(h)
  /\ \E ok \in Outcomes :
       Apply(h, IF ok THEN SaveConnection(Tables, req[h])
                ELSE FailConnection(Tables, req[h]), ~ok)
  /\ UNCHANGED nReq

\* handleRequest of the new connection's transport has returned or thrown
HandleRequestNew(h) ==
  /\ req[h].pc = "hr_new"
  /\ Settles(h)
  /\ \E ok \in Outcomes :
       Apply(h, IF ok
                THEN [st |-> Finally(Tables, req[h]),
                      r |-> Finish(req[h],
                                   TransportReply(req[h], heap[req[h].conn])),
                      enq |-> FALSE]
                ELSE FailConnection(Tables, req[h]), ~ok)
  /\ UNCHANGED nReq

\* client.close() has settled: rethrow, `finally`, outermost `catch`
ClientClosed(h) ==
  /\ req[h].pc = "closing"
  /\ Settles(h)
  /\ Apply(h, [st |-> Finally(Tables, req[h]),
               r |-> Finish(req[h], InternalError(req[h])),
               enq |-> FALSE], FALSE)
  /\ UNCHANGED nReq

\* handleRequest of an existing connection's transport has returned or thrown
HandleRequestDone(h) ==
  /\ req[h].pc \in {"hr_reuse", "hr_wait", "hr_sub"}
  /\ Settles(h)
  /\ \E ok \in Outcomes :
       Apply(h, [st |-> IF req[h].pc = "hr_reuse"
                        THEN Finally(Tables, req[h]) ELSE Tables,
                 r |-> Finish(req[h],
                         IF ok THEN TransportReply(req[h], heap[req[h].conn])
                         ELSE InternalError(req[h])),
                 enq |-> FALSE], ~ok)
  /\ UNCHANGED nReq

RECURSIVE cleanupAll(_, _)
cleanupAll(st, S) ==
  IF S = {} THEN st
  ELSE LET c == CHOOSE x \in S : \A y \in S : x <= y
       IN cleanupAll(cleanupConnection(st, c), S \ {c})

\* the interval callback of startCleanupTimer
Sweep(st, t) ==
  cleanupAll(st, {c \in ConnIds :
                    /\ st.active[c] # NoObj
                    /\ t - st.heap[st.active[c]].lastUsed > CLEANUP_THRESHOLD
                    /\ st.heap[st.active[c]].sessionIds = {}})

\* one sweep period elapses; the interval callback runs if the timer exists
TickTo(limit) ==
  /\ microQ = <<>>
  /\ now < limit
  /\ now' = now + 1
  /\ Commit(IF cleanupTimer > 0 THEN Sweep(Tables, now + 1) ELSE Tables, req)
  /\ out' = NoOut
  /\ UNCHANGED <<req, microQ, draining, turn, nReq, nForce, nFail, proxy>>

Tick == TickTo(MaxTime)

forceCleanupAllConnections ==
  /\ microQ = <<>>
  /\ nForce < MaxForce
  /\ nForce' = nForce + 1
  /\ Commit(LET st == cleanupAll([Tables EXCEPT !.timer =
                                   IF @ > 0 THEN @ - 1 ELSE 0],
                                 {c \in ConnIds :
                                    activeProxyConnections[c] # NoObj})
            IN [st EXCEPT !.s2c = [s \in Sids |-> NoMap],
                          !.initializing = {}],
            req)
  /\ out' = NoOut
  /\ UNCHANGED <<req, microQ, draining, turn, now, nReq, nFail, proxy>>

Next ==
  \/ \E h \in Reqs : Receive(h)
  \/ \E h \in Reqs : WaitTimeout(h)
  \/ \E h \in Reqs : ExistingValidated(h)
  \/ \E h \in Reqs : GlobalValidated(h)
  \/ \E h \in Reqs : SubsequentValidated(h)
  \/ \E h \in Reqs : UpstreamReply(h)
  \/ \E h \in Reqs : ServerSetup(h)
  \/ \E h \in Reqs : HandleRequestNew(h)
  \/ \E h \in Reqs : ClientClosed(h)
  \/ \E h \in Reqs : HandleRequestDone(h)
  \/ Tick
  \/ forceCleanupAllConnections

Spec == Init /\ [][Next]_vars

\* a continuation of handler h runs
HandlerStep(h) ==
  \/ WaitTimeout(h)
  \/ ExistingValidated(h)
  \/ GlobalValidated(h)
  \/ SubsequentValidated(h)
  \/ UpstreamReply(h)
  \/ ServerSetup(h)
  \/ HandleRequestNew(h)
  \/ ClientClosed(h)
  \/ HandleRequestDone(h)

\* The event loop keeps running: timers fire, the library's promises settle
\* (the upstream connect and initialize, server.connect and handleRequest
\* each complete or fail) and a continuation that is ready runs.
LiveNext ==
  \/ \E h \in Reqs : Receive(h)
  \/ \E h \in Reqs : WaitTimeout(h)
  \/ \E h \in Reqs : ExistingValidated(h)
  \/ \E h \in Reqs : GlobalValidated(h)
  \/ \E h \in Reqs : SubsequentValidated(h)
  \/ \E h \in Reqs : UpstreamReply(h)
  \/ \E h \in Reqs : ServerSetup(h)
  \/ \E h \in Reqs : HandleRequestNew(h)
  \/ \E h \in Reqs : ClientClosed(h)
  \/ \E h \in Reqs : HandleRequestDone(h)
  \/ forceCleanupAllConnections

SpecLive ==
  Init /\ [][LiveNext]_vars /\ WF_vars(\E h \in Reqs : HandlerStep(h))

\* The same handlers over a longer time: sweep periods elapse while no
\* request is in flight, up to MaxSweeps of them, so that connections grow
\* older than CLEANUP_THRESHOLD.
SweepTick == InFlight = {} /\ TickTo(MaxSweeps)

SweepNext ==
  \/ \E h \in Reqs : Receive(h)
  \/ \E h \in Reqs : WaitTimeout(h)
  \/ \E h \in Reqs : ExistingValidated(h)
  \/ \E h \in Reqs : GlobalValidated(h)
  \/ \E h \in Reqs : SubsequentValidated(h)
  \/ \E h \in Reqs : UpstreamReply(h)
  \/ \E h \in Reqs : ServerSetup(h)
  \/ \E h \in Reqs : HandleRequestNew(h)
  \/ \E h \in Reqs : ClientClosed(h)
  \/ \E h \in Reqs : HandleRequestDone(h)
  \/ SweepTick

SpecSweep == Init /\ [][SweepNext]_vars

\* The server transport of a registered connection closes (the downstream
\* client ends its session, or the stream breaks).  The handler gives the
\* transport no onclose callback, so nothing but the transport changes.
TransportClose(o) ==
  /\ microQ = <<>>
  /\ \E c \in ConnIds : activeProxyConnections[c] = o
  /\ heap[o].server = "connected"
  /\ heap' = [heap EXCEPT ![o].server = "transportClosed"]
  /\ out' = NoOut
  /\ UNCHANGED <<activeProxyConnections, sessionToConnection,
                 initializingSessions, cleanupTimer, req, microQ, draining,
                 turn, now, nReq, nForce, nFail, proxy>>

\* the handlers, transports that close, and the sweep
CloseNext ==
  \/ \E h \in Reqs : Receive(h)
  \/ \E h \in Reqs : WaitTimeout(h)
  \/ \E h \in Reqs : ExistingValidated(h)
  \/ \E h \in Reqs : GlobalValidated(h)
  \/ \E h \in Reqs : SubsequentValidated(h)
  \/ \E h \in Reqs : UpstreamReply(h)
  \/ \E h \in Reqs : ServerSetup(h)
  \/ \E h \in Reqs : HandleRequestNew(h)
  \/ \E h \in Reqs : ClientClosed(h)
  \/ \E h \in Reqs : HandleRequestDone(h)
  \/ \E o \in Reqs : TransportClose(o)
  \/ SweepTick

SpecClose == Init /\ [][CloseNext]_vars

\* ------------------------------------------------------------ proxyServer

MaxEvents == 3   \* requests and notifications one bridge sees

\* the fields of ServerCapabilities that proxyServer looks at; subscribe is
\* a field of resources
CapNames == {"logging", "prompts", "resources", "resources.subscribe",
             "tools"}
CapabilitySets ==
  {S \in SUBSET CapNames : "resources.subscribe" \in S => "resources" \in S}

\* the request schemas and notification schemas proxyServer imports
RequestSchemas ==
  {"GetPromptRequest", "ListPromptsRequest", "ListResourcesRequest",
   "ListResourceTemplatesRequest", "ReadResourceRequest", "SubscribeRequest",
   "UnsubscribeRequest", "CallToolRequest", "ListToolsRequest",
   "CompleteRequest"}
NotificationSchemas == {"LoggingMessageNotification",
                        "ResourceUpdatedNotification"}

\* server.setRequestHandler(schema, wrapHandler(args => client.method(..)))
Handler(schema, method) == <<schema, method>>

PromptHandlers ==
  {Handler("GetPromptRequest", "getPrompt"),
   Handler("ListPromptsRequest", "listPrompts")}

ResourceHandlers ==
  {Handler("ListResourcesRequest", "listResources"),
   Handler("ListResourceTemplatesRequest", "listResourceTemplates"),
   Handler("ReadResourceRequest", "readResource")}

SubscribeHandlers ==
  {Handler("SubscribeRequest", "subscribeResource"),
   Handler("UnsubscribeRequest", "unsubscribeResource")}

ToolHandlers ==
  {Handler("CallToolRequest", "callTool"),
   Handler("ListToolsRequest", "listTools")}

CompleteHandlers == {Handler("CompleteRequest", "complete")}

\* proxyServer installing the subscribe handlers whenever resources are
\* advertised
proxyServer_SubscribeAlways(S) ==
  [serverRequestHandlers |->
     (IF "prompts" \in S THEN PromptHandlers ELSE {})
     \cup (IF "resources" \in S
           THEN ResourceHandlers \cup SubscribeHandlers ELSE {})
     \cup (IF "tools" \in S THEN ToolHandlers ELSE {})
     \cup CompleteHandlers,
   serverNotificationHandlers |->
     (IF "logging" \in S THEN {"LoggingMessageNotification"} ELSE {})
     \cup (IF "resources" \in S /\ "resources.subscribe" \in S
           THEN {"ResourceUpdatedNotification"} ELSE {}),
   clientNotificationHandlers |->
     (IF "logging" \in S THEN {"LoggingMessageNotification"} ELSE {})]

\* the handlers proxyServer installs for the capabilities S:
\* request handlers of the local server (each calling one client method),
\* notification handlers of the local server (each relaying to the upstream
\* with client.notification) and notification handlers of the client (each
\* relaying to the downstream client with server.notification)
proxyServer(S) ==
  [serverRequestHandlers |->
     (IF "prompts" \in S THEN PromptHandlers ELSE {})
     \cup (IF "resources" \in S THEN ResourceHandlers ELSE {})
     \cup (IF "resources" \in S /\ "resources.subscribe" \in S
           THEN SubscribeHandlers ELSE {})
     \cup (IF "tools" \in S THEN ToolHandlers ELSE {})
     \cup CompleteHandlers,
   serverNotificationHandlers |->
     (IF "logging" \in S THEN {"LoggingMessageNotification"} ELSE {})
     \cup (IF "resources" \in S /\ "resources.subscribe" \in S
           THEN {"ResourceUpdatedNotification"} ELSE {}),
   clientNotificationHandlers |->
     (IF "logging" \in S THEN {"LoggingMessageNotification"} ELSE {})]

\* a downstream request: the client calls its handler has made, how the
\* upstream settled the call, and what the handler returned or threw
NoRequest == [schema |-> "", pc |-> "none", calls |-> <<>>,
              upstream |-> "", result |-> ""]

\* a (client, server) pair with the capabilities S, before proxyServer runs
NewProxy(S) ==
  [phase |-> "created", caps |-> S,
   serverRequestHandlers |-> {}, serverNotificationHandlers |-> {},
   clientNotificationHandlers |-> {},
   fromUpstream |-> <<>>, toDownstream |-> <<>>,
   fromDownstream |-> <<>>, toUpstream |-> <<>>,
   request |-> NoRequest, events |-> 0]

InitProxy == HandlerInit /\ proxy \in {NewProxy(S) : S \in CapabilitySets}

\* `await proxyServer({ client, server, serverCapabilities })`
ProxySetup ==
  /\ proxy.phase = "created"
  /\ LET installed == proxyServer(proxy.caps)
     IN proxy' = [proxy EXCEPT
          !.phase = "ready",
          !.serverRequestHandlers = installed.serverRequestHandlers,
          !.serverNotificationHandlers = installed.serverNotificationHandlers,
          !.clientNotificationHandlers = installed.clientNotificationHandlers]
  /\ UNCHANGED handlerVars

\* wrapHandler: the handler awaits one client call
wrapHandler(schema, method) ==
  [schema |-> schema, pc |-> "awaiting", calls |-> <<method>>,
   upstream |-> "", result |-> ""]

\* the client call of a wrapped handler settles: the result is returned, an
\* error is logged and thrown again
wrapHandlerSettled(r, ok) ==
  [r EXCEPT !.pc = "done", !.upstream = IF ok THEN "result" ELSE "error",
            !.result = IF ok THEN "result" ELSE "error"]

\* the downstream client sends a request to the local server
DownstreamRequest(schema) ==
  /\ proxy.phase = "ready"
  /\ proxy.request.pc # "awaiting"
  /\ proxy.events < MaxEvents
  /\ LET hs == {h \in proxy.serverRequestHandlers : h[1] = schema}
     IN proxy' = [proxy EXCEPT
          !.events = @ + 1,
          !.request =
             IF hs = {}
             THEN [schema |-> schema, pc |-> "done", calls |-> <<>>,
                   upstream |-> "", result |-> "method not found"]
             ELSE LET h == CHOOSE x \in hs : TRUE
                  IN wrapHandler(h[1], h[2])]
  /\ UNCHANGED handlerVars

\* the upstream answers the client call, or fails it
UpstreamAnswers(ok) ==
  /\ proxy.phase = "ready"
  /\ proxy.request.pc = "awaiting"
  /\ proxy' = [proxy EXCEPT !.request = wrapHandlerSettled(@, ok)]
  /\ UNCHANGED handlerVars

\* a notification with its serial number
Notification(schema, n) == [schema |-> schema, n |-> n]

\* the upstream server sends a notification: the client's handler for its
\* schema, if there is one, passes it to server.notification
UpstreamNotifies(schema) ==
  /\ proxy.phase = "ready"
  /\ proxy.events < MaxEvents
  /\ LET m == Notification(schema, Len(proxy.fromUpstream) + 1)
     IN proxy' = [proxy EXCEPT
          !.events = @ + 1,
          !.fromUpstream = Append(@, m),
          !.toDownstream =
             IF schema \in proxy.clientNotificationHandlers
             THEN Append(@, m) ELSE @]
  /\ UNCHANGED handlerVars

\* the downstream client sends a notification: the server's handler for its
\* schema, if there is one, passes it to client.notification
DownstreamNotifies(schema) ==
  /\ proxy.phase = "ready"
  /\ proxy.events < MaxEvents
  /\ LET m == Notification(schema, Len(proxy.fromDownstream) + 1)
     IN proxy' = [proxy EXCEPT
          !.events = @ + 1,
          !.fromDownstream = Append(@, m),
          !.toUpstream =
             IF schema \in proxy.serverNotificationHandlers
             THEN Append(@, m) ELSE @]
  /\ UNCHANGED handlerVars

ProxyNext ==
  \/ ProxySetup
  \/ \E schema \in RequestSchemas : DownstreamRequest(schema)
  \/ \E ok \in BOOLEAN : UpstreamAnswers(ok)
  \/ \E schema \in NotificationSchemas : UpstreamNotifies(schema)
  \/ \E schema \in NotificationSchemas : DownstreamNotifies(schema)

SpecProxy == InitProxy /\ [][ProxyNext]_vars

TypeOK ==
  /\ activeProxyConnections \in [ConnIds -> Reqs \cup {NoObj}]
  /\ sessionToConnection \in [Sids -> ConnIds \cup {NoMap}]
  /\ initializingSessions \subseteq Sids
  /\ cleanupTimer \in 0..MaxReq
  /\ now \in 0..MaxSweeps

\* ----------------------------------------------------------------- claims

Registered == {c \in ConnIds : activeProxyConnections[c] # NoObj}
Mapped == {s \in Sids : sessionToConnection[s] # NoMap}
Connection(c) == heap[activeProxyConnections[c]]

\* C1 (P1, I2): the keys of sessionToConnection are the union of the
\* sessionIds of the registered connections, and the sessionIds of each
\* registered connection are exactly the session ids mapped to its id.
C1_SessionIdsMatchMapping ==
  /\ Mapped = UNION {Connection(c).sessionIds : c \in Registered}
  /\ \A c \in Registered :
       Connection(c).sessionIds = {s \in Sids : sessionToConnection[s] = c}

\* C2 (I1): every session id in sessionToConnection maps to a connection id
\* that is present in activeProxyConnections.
C2_NoDanglingMapping ==
  \A s \in Mapped : sessionToConnection[s] \in Registered

\* the positions of an initialize handler between initializingSessions.add
\* and the `finally` that deletes the session id
PastGuard == {"ex_val", "gl_val", "upstream", "setup", "hr_new", "hr_reuse",
              "closing"}

\* C3 (P2, I5): no two initialize handlers for the same session id are past
\* the guard at the same time.
C3_OneInitializePerSession ==
  \A h1, h2 \in Reqs :
     (/\ h1 # h2
      /\ req[h1].pc \in PastGuard
      /\ req[h2].pc \in PastGuard) => req[h1].sid # req[h2].sid

\* the locals of handler h after the step
Cur(h) == IF out'.h = h THEN out'.r ELSE req'[h]
Stepped(h) == req'[h] # req[h]
TablesUnchanged ==
  UNCHANGED <<activeProxyConnections, sessionToConnection,
              initializingSessions, heap>>

\* requests 1 and 2 are the only ones so far, both are initializes that
\* have returned successfully, for distinct session ids; the upstream
\* accepted the initialize of o1 and answered "Server already initialized"
\* to that of o2
SingletonScenario(o1, o2) ==
  /\ nReq = 2 /\ nForce = 0
  /\ {o1, o2} = {1, 2}
  /\ req[1].pc = "done" /\ req[2].pc = "done"
  /\ heap[o1].via = "ok" /\ heap[o1].state = "connected"
  /\ heap[o2].via = "already" /\ heap[o2].state = "connected"
  /\ heap[o1].gen # heap[o2].gen

\* C4 as stated: in the singleton scenario both session ids map to
\* "global-mcp-connection", whose sessionIds has size 2.
C4_BothOnGlobal ==
  \A o1, o2 \in Reqs :
     SingletonScenario(o1, o2) =>
       /\ sessionToConnection[heap[o1].gen] = globalConnectionId
       /\ sessionToConnection[heap[o2].gen] = globalConnectionId
       /\ globalConnectionId \in Registered
       /\ Cardinality(Connection(globalConnectionId).sessionIds) = 2

\* C4 as amended: in the singleton scenario the first session id maps to a
\* connection registered under that session id, and the second one to
\* "global-mcp-connection", whose sessionIds is exactly the second id.
C4_SecondOnGlobal ==
  \A o1, o2 \in Reqs :
     SingletonScenario(o1, o2) =>
       /\ sessionToConnection[heap[o1].gen] = heap[o1].gen
       /\ activeProxyConnections[heap[o1].gen] = o1
       /\ heap[o1].sessionIds = {heap[o1].gen}
       /\ sessionToConnection[heap[o2].gen] = globalConnectionId
       /\ activeProxyConnections[globalConnectionId] = o2
       /\ heap[o2].sessionIds = {heap[o2].gen}

C4_Witness == \E o1, o2 \in Reqs : SingletonScenario(o1, o2)

C6_MissingSessionId ==
  [][\A h \in Reqs :
       (/\ req[h].pc = "idle" /\ Stepped(h)
        /\ Cur(h).method # "OPTIONS" /\ ~Cur(h).init /\ Cur(h).hdr = NoSid) =>
          /\ Cur(h).pc = "done"
          /\ Cur(h).resp.status = 400
          /\ Cur(h).resp.code = -32000
          /\ Cur(h).resp.msg = "Missing session ID"
          /\ Cur(h).handed = "none"
          /\ TablesUnchanged
    ]_vars

C6_Witness ==
  /\ out.h # 0 /\ out.r.resp.status = 400
  /\ Registered # {} /\ initializingSessions # {} /\ now > 0

\* the session id resolves to no registered connection
Unresolved(s) ==
  \/ sessionToConnection[s] = NoMap
  \/ activeProxyConnections[sessionToConnection[s]] = NoObj

C8_ConnectionLost ==
  [][\A h \in Reqs :
       (req[h].pc = "sub_val" /\ ~req[h].vres /\ Stepped(h)) =>
          /\ Cur(h).pc = "done"
          /\ Cur(h).resp.code = -32000
          /\ Cur(h).resp.msg = "Connection lost, please reinitialize"
          /\ Cur(h).handed = "none"
          /\ \A c \in ConnIds : activeProxyConnections'[c] # req[h].conn
          /\ \A s \in Sids :
               (\/ s \in heap[req[h].conn].sessionIds
                \/ sessionToConnection[s] = req[h].connId)
               => sessionToConnection'[s] = NoMap
    ]_vars

\* C9: once connect() or the upstream initialize has failed with another
\* error than "Server already initialized", the connection's state is error
\* and its client closed, the handler neither registers the connection nor
\* changes sessionToConnection, and it returns an error response with its
\* session id removed from initializingSessions.
C9_UpstreamFailure ==
  [][\A h \in Reqs :
       (Stepped(h) /\ Cur(h).up \in {"connfail", "fail"}) =>
          /\ heap'[h].state = "error"
          /\ ~heap'[h].clientOpen
          /\ \A c \in ConnIds : activeProxyConnections'[c] # h
          /\ UNCHANGED <<activeProxyConnections, sessionToConnection>>
          /\ Cur(h).pc \in {"closing", "done"}
          /\ Cur(h).pc = "done" =>
               /\ Cur(h).resp.status = 500
               /\ Cur(h).sid \notin initializingSessions'
    ]_vars

C9_Witness ==
  /\ out.h # 0 /\ out.r.up \in {"connfail", "fail"}
  /\ out.r.resp.status = 500
  /\ heap[out.h].state = "error"

\* C10: the mcp-session-id returned by a successful initialize is the
\* session id chosen for that request.
C10_ReturnsOwnSessionId ==
  (/\ out.h # 0 /\ out.r.init /\ out.r.method # "OPTIONS"
   /\ out.r.resp.msg = "forwarded") => out.r.resp.sess = out.r.sid

\* the connection registered under c has not been used for more than
\* CLEANUP_THRESHOLD at time t
Idle(c, t) == t - Connection(c).lastUsed > CLEANUP_THRESHOLD

Of(schema, seq) == SelectSeq(seq, LAMBDA m : m.schema = schema)

\* C12 (P4): when the capabilities advertise resources.subscribe, every
\* resourceUpdated notification the upstream has emitted has been relayed
\* to the downstream client, in the upstream's order and once each.
C12_ResourceUpdatedRelayed ==
  (proxy.phase = "ready" /\ "resources.subscribe" \in proxy.caps) =>
    Of("ResourceUpdatedNotification", proxy.toDownstream)
      = Of("ResourceUpdatedNotification", proxy.fromUpstream)

\* the schemas for which the local server has a request handler
InstalledSchemas == {h[1] : h \in proxy.serverRequestHandlers}

\* the handlers of the group are all installed if cond, none otherwise
InstalledIff(group, cond) ==
  IF cond THEN group \subseteq InstalledSchemas
  ELSE group \cap InstalledSchemas = {}

\* the upstream call that corresponds to a request schema
Corresponding(schema) ==
  CASE schema = "GetPromptRequest" -> "getPrompt"
    [] schema = "ListPromptsRequest" -> "listPrompts"
    [] schema = "ListResourcesRequest" -> "listResources"
    [] schema = "ListResourceTemplatesRequest" -> "listResourceTemplates"
    [] schema = "ReadResourceRequest" -> "readResource"
    [] schema = "SubscribeRequest" -> "subscribeResource"
    [] schema = "UnsubscribeRequest" -> "unsubscribeResource"
    [] schema = "CallToolRequest" -> "callTool"
    [] schema = "ListToolsRequest" -> "listTools"
    [] schema = "CompleteRequest" -> "complete"

\* C13: after proxyServer(S) the request handlers installed are getPrompt
\* and listPrompts iff S has prompts; listResources, listResourceTemplates
\* and readResource iff S has resources; subscribeResource and
\* unsubscribeResource iff S has resources.subscribe; callTool and listTools
\* iff S has tools; complete always; loggingMessage notifications are
\* relayed in both directions iff S has logging; and a request with an
\* installed handler makes exactly one upstream call, the corresponding one,
\* whose error is raised again without another call.
C13_HandlersFollowCapabilities ==
  proxy.phase = "ready" =>
    /\ InstalledIff({"GetPromptRequest", "ListPromptsRequest"},
                    "prompts" \in proxy.caps)
    /\ InstalledIff({"ListResourcesRequest", "ListResourceTemplatesRequest",
                     "ReadResourceRequest"}, "resources" \in proxy.caps)
    /\ InstalledIff({"SubscribeRequest", "UnsubscribeRequest"},
                    "resources.subscribe" \in proxy.caps)
    /\ InstalledIff({"CallToolRequest", "ListToolsRequest"},
                    "tools" \in proxy.caps)
    /\ "CompleteRequest" \in InstalledSchemas
    /\ \A h \in proxy.serverRequestHandlers :
         /\ h[2] = Corresponding(h[1])
         /\ \A g \in proxy.serverRequestHandlers : g[1] = h[1] => g = h
    /\ Of("LoggingMessageNotification", proxy.toDownstream)
         = IF "logging" \in proxy.caps
           THEN Of("LoggingMessageNotification", proxy.fromUpstream)
           ELSE <<>>
    /\ Of("LoggingMessageNotification", proxy.toUpstream)
         = IF "logging" \in proxy.caps
           THEN Of("LoggingMessageNotification", proxy.fromDownstream)
           ELSE <<>>
    /\ (proxy.request.pc # "none"
        /\ proxy.request.schema \in InstalledSchemas) =>
          /\ proxy.request.calls = <<Corresponding(proxy.request.schema)>>
          /\ proxy.request.pc = "done" =>
               /\ proxy.request.upstream \in {"result", "error"}
               /\ proxy.request.result = proxy.request.upstream
    /\ (proxy.request.pc # "none"
        /\ proxy.request.schema \notin InstalledSchemas) =>
          proxy.request.calls = <<>>

C13_Witness ==
  /\ proxy.phase = "ready"
  /\ "resources.subscribe" \in proxy.caps /\ "logging" \in proxy.caps
  /\ "tools" \notin proxy.caps
  /\ proxy.request.schema = "SubscribeRequest"
  /\ proxy.request.result = "error"
  /\ Len(proxy.toDownstream) = 1 /\ Len(proxy.toUpstream) = 1

\* handler h has just met an unexpected failure, or has just answered it
\* with HTTP 500
Failing(h) ==
  /\ Stepped(h)
  /\ \/ Cur(h).pc = "closing" /\ req[h].pc # "closing"
     \/ Cur(h).pc = "done" /\ Cur(h).resp.status = 500

\* C14: an unexpected failure inside the handler is answered with HTTP 500
\* and tears no session down: sessionToConnection, the registrations in
\* activeProxyConnections and the state of every registered connection are
\* as before the failure.
C14_FailureKeepsSession ==
  [][\A h \in Reqs :
       Failing(h) =>
         /\ Cur(h).pc = "done" => Cur(h).resp = InternalError(Cur(h))
         /\ UNCHANGED <<sessionToConnection, activeProxyConnections>>
         /\ \A c \in Registered :
              heap'[activeProxyConnections[c]].state = Connection(c).state
    ]_vars

\* C15: a request with method OPTIONS is answered with HTTP 204 whatever its
\* session header and body, changes none of activeProxyConnections,
\* sessionToConnection and initializingSessions, creates no connection and
\* is handed to none; its response carries the CORS headers iff the request
\* has an Origin header, with Access-Control-Allow-Origin equal to it.
C15_OptionsShortCircuit ==
  [][\A h \in Reqs :
       (req[h].pc = "idle" /\ Stepped(h) /\ Cur(h).method = "OPTIONS") =>
          /\ Cur(h).pc = "done"
          /\ Cur(h).resp.status = 204
          /\ Cur(h).resp.cors = Cur(h).origin
          /\ Cur(h).conn = NoObj /\ Cur(h).up = "none"
          /\ Cur(h).handed = "none"
          /\ TablesUnchanged
    ]_vars

C15_Witness ==
  /\ out.h # 0 /\ out.r.method = "OPTIONS" /\ out.r.init
  /\ out.r.hdr # NoSid /\ out.r.resp.cors = 2
  /\ Registered # {} /\ initializingSessions # {}

\* C16: a request is handed to a connection's server transport only if the
\* connection's state is connected at the time of the hand-off, on every
\* dispatch path (handed records the state found at the hand-off).
C16_HandOffOnlyWhenConnected ==
  /\ \A h \in Reqs : req[h].handed \in {"none", "connected"}
  /\ out.r.handed \in {"none", "connected"}

\* the session id is bound to no connection that validates
NoValidBound(s) ==
  Unresolved(s) \/ Connection(sessionToConnection[s]).state # "connected"

\* no global connection that validates is registered
NoValidGlobal ==
  \/ globalConnectionId \notin Registered
  \/ Connection(globalConnectionId).state # "connected"

\* the upstream clients that are open for connections whose upstream
\* initialize was answered "Server already initialized"
OpenAlreadyInitialized ==
  {o \in Reqs : heap[o].clientOpen /\ heap[o].via = "already"}

\* C17: an initialize creates a connection only if its session id is bound
\* to no connection that validates and no global connection that validates
\* exists; one that reuses a connection bumps its lastUsed, has its session
\* id bound to it and leaves the entries of activeProxyConnections as they
\* are; and interleaved initializes create no more upstream connections than
\* they would one after the other, where the second of two initializes
\* answered "Server already initialized" reuses the global connection of the
\* first: at most one such upstream client is open at a time.
C17_CreateOnlyWhenNothingToReuse ==
  /\ [][\A h \in Reqs :
          /\ (req[h].pc # "upstream" /\ req'[h].pc = "upstream") =>
               NoValidBound(req'[h].sid) /\ NoValidGlobal
          /\ (/\ req[h].pc \notin {"hr_reuse", "hr_wait"}
              /\ req'[h].pc \in {"hr_reuse", "hr_wait"}) =>
               /\ activeProxyConnections' = activeProxyConnections
               /\ heap'[req'[h].conn].lastUsed = now
               /\ sessionToConnection'[req'[h].sid] # NoMap
               /\ activeProxyConnections'[sessionToConnection'[req'[h].sid]]
                    = req'[h].conn
     ]_vars
  /\ [](Cardinality(OpenAlreadyInitialized) <= 1)

\* the positions of an initialize handler after its lookup of the tables
\* and before the mutation that binds its session id or publishes its
\* connection
BetweenLookupAndMutation == {"ex_val", "gl_val", "upstream", "setup"}

\* C18: while an initialize handler is between its lookup of the tables and
\* its mutation, no step of another handler, of a cleanup or of the sweep
\* changes activeProxyConnections, sessionToConnection or
\* initializingSessions.
C18_LookupAndMutateAtomic ==
  [][\A h \in Reqs :
       (req[h].pc \in BetweenLookupAndMutation /\ req'[h] = req[h]) =>
         UNCHANGED <<activeProxyConnections, sessionToConnection,
                     initializingSessions>>
    ]_vars

\* the edges of the connection state machine; <<"none", "initializing">> is
\* the creation of the connection object
StateEdges ==
  {<<"none", "initializing">>, <<"initializing", "connected">>,
   <<"initializing", "error">>, <<"connected", "disconnected">>}

\* C19: the state of a connection changes only from initializing to
\* connected, from initializing to error and from connected to
\* disconnected, and a connection removed from activeProxyConnections by a
\* failed validation or by the sweep is in state disconnected when removed.
C19_StateMachine ==
  [][/\ \A o \in Reqs :
          heap'[o].state # heap[o].state =>
            <<heap[o].state, heap'[o].state>> \in StateEdges
     /\ \A c \in Registered :
          (activeProxyConnections'[c] = NoObj /\ nForce' = nForce) =>
            heap'[activeProxyConnections[c]].state = "disconnected"
    ]_vars

\* the session ids of the initialize handlers that have passed the guard and
\* have not yet exited
Initializing == {req[h].sid : h \in {k \in Reqs : req[k].pc \in PastGuard}}

\* C20: as long as forceCleanupAllConnections has not been called, a session
\* id is in initializingSessions iff an initialize handler for it has passed
\* the guard and has not yet exited; in particular the set is empty when no
\* initialize handler is executing.
C20_InitializingIffRunning ==
  nForce = 0 => initializingSessions = Initializing

\* C21: a step in which cleanupConnection removes connection id c leaves no
\* session id of sessionToConnection mapped to c; and in every reachable
\* state cleanupConnection(c) leaves c unregistered, changes nothing when c
\* is not registered, and changes nothing when called a second time.  (A
\* failing close of the client or the server is caught by the .catch of the
\* call and does not change what cleanupConnection does to the tables.)
C21_CleanupRemovesEveryMapping ==
  /\ [][\A c \in Registered :
          activeProxyConnections'[c] = NoObj =>
            \A s \in Sids : sessionToConnection'[s] # c]_vars
  /\ [](\A c \in ConnIds :
          LET st1 == cleanupConnection(Tables, c)
          IN /\ st1.active[c] = NoObj
             /\ cleanupConnection(st1, c) = st1
             /\ activeProxyConnections[c] = NoObj => st1 = Tables)

\* the server transport of connection object o closes in this step
Closes(o) ==
  heap[o].server = "connected" /\ heap'[o].server = "transportClosed"

\* C22: when the server transport of a session closes, the session id (the
\* one its sessionIdGenerator returns) is no longer in sessionToConnection
\* nor in the sessionIds of its connection; and a registered connection whose
\* sessionIds is empty is eventually removed from activeProxyConnections.
C22_TransportCloseDropsSession ==
  /\ [][\A o \in Reqs :
          Closes(o) =>
            /\ sessionToConnection'[heap[o].gen] = NoMap
            /\ heap[o].gen \notin heap'[o].sessionIds]_vars
  /\ \A c \in ConnIds :
       (activeProxyConnections[c] # NoObj /\ Connection(c).sessionIds = {})
         ~> (activeProxyConnections[c] = NoObj)

\* a connection is registered in this step
Registers == \E c \in ConnIds :
  /\ activeProxyConnections'[c] # NoObj
  /\ activeProxyConnections'[c] # activeProxyConnections[c]

\* C23: whenever a connection is registered the cleanup timer exists, and
\* there is never more than one interval timer; a call of
\* forceCleanupAllConnections leaves no timer and leaves
\* activeProxyConnections, sessionToConnection and initializingSessions
\* empty; every step that registers a connection, also one after a forced
\* cleanup, leaves exactly one timer running.
C23_TimerRunsOnce ==
  /\ [](Registered # {} => cleanupTimer > 0)
  /\ [](cleanupTimer <= 1)
  /\ [][nForce' # nForce =>
          /\ cleanupTimer' = 0
          /\ Registered' = {}
          /\ Mapped' = {}
          /\ initializingSessions' = {}]_vars
  /\ [][Registers => cleanupTimer' = 1]_vars

\* an initialize that was past the guard when forceCleanupAllConnections ran
\* (its session id is gone from initializingSessions although it is the only
\* request so far) has registered its connection, and the timer runs again
C23_Witness ==
  /\ nForce = 1
  /\ nReq = 1
  /\ cleanupTimer = 1
  /\ \E h \in Reqs :
       /\ req[h].pc = "hr_new"
       /\ req[h].sid \notin initializingSessions
       /\ activeProxyConnections[req[h].connId] = h

\* the statuses the handler and the server transport write
Statuses == {200, 204, 400, 500}

\* C24: every invocation terminates (eventually no handler is in flight, for
\* good) after writing one response: a handler returns in the step in which
\* its response is written and never runs again; and the wait on an
\* initialize in progress is one delay, after which the handler hands the
\* request to the connection it found or goes on to initialize on its own.
C24_TerminatesWithOneResponse ==
  /\ <>[](InFlight = {})
  /\ [][\A h \in Reqs :
          /\ (Stepped(h) /\ req'[h].pc = "done") =>
               (out'.h = h /\ out'.r.resp.status \in Statuses)
          /\ req[h].pc = "done" => req'[h] = req[h]
          /\ (Stepped(h) /\ req[h].pc = "wait") =>
               req'[h].pc \in PastGuard \cup {"hr_wait"}]_vars

\* every request has been received and answered, the last one with 500
\* through the outermost catch after its upstream initialize failed
C24_Witness ==
  /\ InFlight = {}
  /\ nReq = MaxReq
  /\ out.h # 0
  /\ out.r.up = "fail"
  /\ out.r.resp.status = 500

\* the connection objects whose upstream client is connected and not closed
OpenClients == {o \in Reqs : heap[o].clientOpen}

\* the initialize handler that created connection object o is still running
OwnerRunning(o) == req[o].conn = o /\ req[o].pc \in PastGuard

\* C25: a step that registers a connection under an id does not replace a
\* registered connection whose upstream client is open; and every open
\* upstream client belongs to a registered connection or to the initialize
\* handler that created it and is still running.
C25_NoClientLeaked ==
  /\ [][\A c \in Registered :
          (activeProxyConnections'[c] \notin {NoObj, activeProxyConnections[c]})
            => ~Connection(c).clientOpen]_vars
  /\ [](\A o \in OpenClients :
          \/ \E c \in ConnIds : activeProxyConnections[c] = o
          \/ OwnerRunning(o))

\* C26: every registered connection is in state connected or error, was made
\* by an upstream initialize that succeeded or was answered "Server already
\* initialized", and has its server connected to its server transport; and
\* a connection is registered by the handler that created it, in state
\* connected, in the step that follows server.connect and proxyServer.
C26_PublishedOnlyWhenReady ==
  /\ [](\A c \in Registered :
          /\ Connection(c).state \in {"connected", "error"}
          /\ Connection(c).via \in {"ok", "already"}
          /\ Connection(c).server \in {"connected", "transportClosed"})
  /\ [][\A c \in ConnIds :
          (/\ activeProxyConnections'[c] # NoObj
           /\ activeProxyConnections'[c] # activeProxyConnections[c]) =>
            LET o == activeProxyConnections'[c]
            IN /\ req[o].pc = "setup"
               /\ req[o].conn = o
               /\ heap'[o].state = "connected"]_vars

\* two connections are registered, one made by a successful initialize and
\* one by "Server already initialized", one of them in state error after its
\* first handleRequest failed
C26_Witness ==
  \E c, d \in Registered :
    /\ Connection(c).via = "ok"
    /\ Connection(d).via = "already"
    /\ Connection(c).state = "error" \/ Connection(d).state = "error"

====
